---- MODULE Spec2Model ----
(***************************************************************************)
(* LazyVec<T> (src/src/lib.rs): a self-initializing vector.  Three stores  *)
(* cooperate: `indices`, an allocated-but-never-initialized table of       *)
(* candidate slot ids; `values`, the stack of stored values; and           *)
(* `value_indices`, the parallel stack naming the logical index that owns  *)
(* each slot.                                                              *)
(*                                                                         *)
(* Rust indexes from 0, TLA+ sequences from 1: cell k of a Rust vector is  *)
(* element k+1 of the sequence that models it.                             *)
(*                                                                         *)
(* Uninitialized memory is a nondeterministic choice.  A cell of the index *)
(* table is the set of words it is known to hold: {s} once the code has    *)
(* stored s in it, {} (Uninit) while it has never been stored to, and a    *)
(* read of an Uninit cell yields any word of Garbage.  (A never-stored     *)
(* cell of index i is read by value_ref, which fails whatever the word     *)
(* is since no slot is owned by i, and once by value_ref_mut, which then   *)
(* stores to it: choosing the word at the read loses no behaviour.)  The   *)
(* value slot that set_len exposes without storing into it is Uninit too,  *)
(* and a read of it yields any element value.  An access to the index     *)
(* table at an offset >= cap lies outside the allocation (undefined        *)
(* behaviour): a read there yields any                                     *)
(* word, and a write there is not kept by the table (the word read back    *)
(* later, or found in the cell once the table has grown over it, is again  *)
(* any word, which includes the case in which the write survived).         *)
(***************************************************************************)
EXTENDS Integers, Sequences, FiniteSets, TLC

\* ---- bounds of the model ------------------------------------------------
\* highest logical index an operation is called with
MaxIndex == 2
\* largest argument of with_capacity
MaxInitCap == 2
\* the value stack is not grown beyond this many slots
MaxSlots == 2

Index == 0..MaxIndex
\* The element type T is a parameter of LazyVec and the code never inspects
\* an element: two distinct values are what it takes to tell a slot that
\* kept its value from one that was stored to.
Vals == {"a", "b"}

Max(a, b) == IF a >= b THEN a ELSE b

\* The words an uninitialized usize cell can hold, up to what the code can
\* tell apart.  The code compares the word with values.len() (at most
\* MaxSlots), with values.len() + 1 and with size (at most MaxIndex + 1),
\* and uses it as a slot id when it is below values.len().
Garbage == 0..Max(MaxSlots, MaxIndex + 1)

\* memory that was allocated and never stored to: an index-table cell, or
\* the value slot that set_len exposes
Uninit == {}

VARIABLES
    size,           \* LazyVec.size
    values,         \* LazyVec.values
    value_indices,  \* LazyVec.value_indices
    indices,        \* LazyVec.indices: the cells inside the allocation
    last,           \* the call performed last: op, its argument i, its outcome
                    \* out, the value ret it returned and, for a write, the
                    \* path it took and whether the index table grew
    lastval,        \* history: index -> value of the latest write call to it
    slotOf,         \* history: index -> slot its first write allocated
    ub,             \* history: some write accessed the table at an offset >= cap
    panicked        \* history: some write call panicked

vars == <<size, values, value_indices, indices, last, lastval, slotOf, ub, panicked>>

\* ---- construction -------------------------------------------------------
\* LazyVec::new
new == [size |-> 0, values |-> <<>>, value_indices |-> <<>>, cap |-> 0]

\* with_capacity as it must not be: pre-allocated cells counted as stored
\* elements
with_capacity_sized(c) ==
    [size |-> c, values |-> <<>>, value_indices |-> <<>>, cap |-> c]

\* LazyVec::with_capacity
with_capacity(c) ==
    [size |-> 0, values |-> <<>>, value_indices |-> <<>>, cap |-> c]

\* ---- queries ------------------------------------------------------------
\* LazyVec::cap
cap == Len(indices)

\* LazyVec::len
len == size

\* ptr::read(self.indices.ptr().offset(i)): the words the read can yield
ptr_read(tbl, i) ==
    IF i < Len(tbl) /\ tbl[i + 1] # Uninit THEN tbl[i + 1] ELSE Garbage

\* ptr::write(ixptr, slot): kept only when the cell is inside the allocation
ptr_write(tbl, i, slot) ==
    IF i < Len(tbl) THEN [tbl EXCEPT ![i + 1] = {slot}] ELSE tbl

Failure(kind) == [out |-> kind, ret |-> {}]

\* `&self.values[ix]`: the values a read through the reference can yield
deref(vs, ix) == IF vs[ix + 1] = Uninit THEN Vals ELSE vs[ix + 1]

\* value_ref as it must not be: the range assertion `i < self.size` left out
value_ref_norange(i, ix) ==
    IF ~(ix < Len(values)) THEN Failure("UninitializedSlot")
    ELSE IF ~(ix < Len(value_indices)) THEN Failure("IndexPanic")
    ELSE IF ~(value_indices[ix + 1] = i) THEN Failure("UninitializedSlot")
    ELSE [out |-> "Ok", ret |-> deref(values, ix)]

\* value_ref as it must not be: the ownership assertion
\* `value_indices[ix] == i` left out
value_ref_noowner(i, ix) ==
    IF ~(i < size) THEN Failure("OutOfRange")
    ELSE IF ~(ix < Len(values)) THEN Failure("UninitializedSlot")
    ELSE [out |-> "Ok", ret |-> deref(values, ix)]

\* LazyVec::value_ref, given the word ix read from the index table: the
\* assertion that fails, or Ok with the values the returned reference can
\* yield (one value, unless the slot was never stored to)
value_ref(i, ix) ==
    IF ~(i < size) THEN Failure("OutOfRange")
    ELSE IF ~(ix < Len(values)) THEN Failure("UninitializedSlot")
    ELSE IF ~(ix < Len(value_indices)) THEN Failure("IndexPanic")
    ELSE IF ~(value_indices[ix + 1] = i) THEN Failure("UninitializedSlot")
    ELSE [out |-> "Ok", ret |-> deref(values, ix)]

\* ---- growth -------------------------------------------------------------
\* RawVec::reserve(used_cap, needed_extra_cap) on a buffer of capacity c:
\* nothing when c - used_cap >= needed_extra_cap, else the capacity becomes
\* max(2 * c, used_cap + needed_extra_cap)
reserve(c, used_cap, needed_extra_cap) ==
    IF c - used_cap >= needed_extra_cap
    THEN c
    ELSE Max(2 * c, used_cap + needed_extra_cap)

\* the capacity step as it must not be: growing as soon as i is the last
\* cell, `if i + 1 >= cap { reserve(cap, i + 2 - cap) }`
grow_eager(c, i) == IF i + 1 >= c THEN reserve(c, c, i + 2 - c) ELSE c

\* value_ref_mut, the capacity step: the capacity after it
grow(c, i) == IF i >= c THEN reserve(c, c, i - c) ELSE c

\* ---- write --------------------------------------------------------------
\* `ix >= nstacked || self.value_indices[ix] != i`, negated
trustworthy(ix, i) ==
    /\ ix < Len(values)
    /\ ix < Len(value_indices)
    /\ value_indices[ix + 1] = i

\* `self.values.reserve(1); self.values.set_len(nstacked + 1)`: one more
\* slot, nothing stored in it
\* set_len as it must not be: the length set past the one reserved slot
set_len_two(vs) == Append(Append(vs, Uninit), Uninit)

set_len(vs) == Append(vs, Uninit)

\* push as it must not be: the owner of the new slot not recorded
push_none(vi, i) == vi

\* `self.value_indices.push(i)`
push(vi, i) == Append(vi, i)

\* value_ref_mut as it must not be: the size update run on both paths
value_ref_mut_resize(tbl, i, ix) ==
    LET nstacked == Len(values) IN
    IF nstacked # Len(value_indices)
    THEN [size |-> size, values |-> values, value_indices |-> value_indices,
          indices |-> tbl, out |-> "AssertPanic", slot |-> {}, pushed |-> FALSE]
    ELSE IF ~trustworthy(ix, i)
    THEN LET vs == set_len(values) IN
         [size |-> IF ix >= size THEN i + 1 ELSE size,
          values |-> vs,
          value_indices |-> push(value_indices, i),
          indices |-> ptr_write(tbl, i, nstacked),
          out |-> IF ix < Len(vs) THEN "Ok" ELSE "IndexPanic",
          slot |-> IF ix < Len(vs) THEN {ix} ELSE {},
          pushed |-> TRUE]
    ELSE [size |-> IF ix >= size THEN i + 1 ELSE size,
          values |-> values, value_indices |-> value_indices,
          indices |-> tbl, out |-> "Ok", slot |-> {ix}, pushed |-> FALSE]

\* LazyVec::value_ref_mut after the capacity step: tbl is the grown table
\* and ix the word read from it at offset i.  slot is the slot the returned
\* reference names ({} when indexing `self.values[ix]` panics).
value_ref_mut(tbl, i, ix) ==
    LET nstacked == Len(values) IN
    IF nstacked # Len(value_indices)
    THEN [size |-> size, values |-> values, value_indices |-> value_indices,
          indices |-> tbl, out |-> "AssertPanic", slot |-> {}, pushed |-> FALSE]
    ELSE IF ~trustworthy(ix, i)
    THEN LET vs == set_len(values) IN
         [size |-> IF ix >= size THEN i + 1 ELSE size,
          values |-> vs,
          value_indices |-> push(value_indices, i),
          indices |-> ptr_write(tbl, i, nstacked),
          out |-> IF ix < Len(vs) THEN "Ok" ELSE "IndexPanic",
          slot |-> IF ix < Len(vs) THEN {ix} ELSE {},
          pushed |-> TRUE]
    ELSE [size |-> size, values |-> values, value_indices |-> value_indices,
          indices |-> tbl, out |-> "Ok", slot |-> {ix}, pushed |-> FALSE]

\* `*r = v` through the reference value_ref_mut returned
store(vs, slot, v) ==
    [k \in 1..Len(vs) |-> IF (k - 1) \in slot THEN {v} ELSE vs[k]]

Extend(f, k, x) == [j \in (DOMAIN f) \cup {k} |-> IF j = k THEN x ELSE f[j]]

\* the container a constructor returned: nothing stored, cap cells allocated
Fresh(s, op, c) ==
    /\ size = s.size
    /\ values = s.values
    /\ value_indices = s.value_indices
    /\ indices = [k \in 1..s.cap |-> Uninit]
    /\ last = [op |-> op, i |-> c, out |-> "Ok"]
    /\ lastval = <<>>
    /\ slotOf = <<>>
    /\ ub = FALSE
    /\ panicked = FALSE

Init ==
    \/ Fresh(new, "new", 0)
    \/ \E c \in 0..MaxInitCap : Fresh(with_capacity(c), "with_capacity", c)

\* `a[i] = v`: IndexMut::index_mut, then the store through its result
index_mut(i, v) ==
    LET tbl == indices \o [k \in 1..(grow(cap, i) - cap) |-> Uninit] IN
      \E r \in {value_ref_mut(tbl, i, ix) : ix \in ptr_read(tbl, i)} :
        /\ Len(r.values) <= MaxSlots
        /\ size' = r.size
        /\ values' = store(r.values, r.slot, v)
        /\ value_indices' = r.value_indices
        /\ indices' = r.indices
        /\ last' = [op |-> "index_mut", i |-> i, out |-> r.out,
                    path |-> IF r.pushed THEN "push"
                             ELSE IF r.out = "Ok" THEN "overwrite" ELSE "none",
                    grew |-> Len(tbl) > cap]
        /\ lastval' = Extend(lastval, i, v)
        /\ slotOf' = IF r.pushed /\ i \notin DOMAIN slotOf
                     THEN Extend(slotOf, i, Len(values)) ELSE slotOf
        /\ ub' = (ub \/ ~(i < Len(tbl)))
        /\ panicked' = (panicked \/ r.out # "Ok")

\* Index::index as it must not be: a failed read extends len() over i
index_resizing(i) ==
    \E r \in {value_ref(i, ix) : ix \in ptr_read(indices, i)} :
      \E w \in (IF r.out = "Ok" THEN {{x} : x \in r.ret} ELSE {{}}) :
        /\ last' = [op |-> "index", i |-> i, out |-> r.out, ret |-> w]
        /\ size' = IF r.out = "Ok" THEN size ELSE Max(size, i + 1)
        /\ UNCHANGED <<values, value_indices, indices, lastval, slotOf, ub, panicked>>

\* `a[i]`: Index::index, and the read through its result
index(i) ==
    \E r \in {value_ref(i, ix) : ix \in ptr_read(indices, i)} :
      \E w \in (IF r.out = "Ok" THEN {{x} : x \in r.ret} ELSE {{}}) :
        /\ last' = [op |-> "index", i |-> i, out |-> r.out, ret |-> w]
        /\ UNCHANGED <<size, values, value_indices, indices, lastval, slotOf, ub, panicked>>

\* `a.len()`
len_call ==
    /\ last' = [op |-> "len", out |-> "Ok", ret |-> {len}]
    /\ UNCHANGED <<size, values, value_indices, indices, lastval, slotOf, ub, panicked>>

\* `a.cap()`
cap_call ==
    /\ last' = [op |-> "cap", out |-> "Ok", ret |-> {cap}]
    /\ UNCHANGED <<size, values, value_indices, indices, lastval, slotOf, ub, panicked>>

Next ==
    \/ \E i \in Index, v \in Vals : index_mut(i, v)
    \/ \E i \in Index : index(i)
    \/ len_call
    \/ cap_call

Spec == Init /\ [][Next]_vars

\* ---- the words and results the claims quantify over ---------------------
\* every word a read of the index table at offset i can yield
Candidates(i) == ptr_read(indices, i)

\* the results of every read of index j, over the words the table can yield
ReadOutcomes(j) == {value_ref(j, ix) : ix \in Candidates(j)}

\* the indices `a[i] = v` was called with
Written == DOMAIN lastval

\* no write so far left the allocated table, and none panicked
Clean == ~ub /\ ~panicked

\* ---- C1 -----------------------------------------------------------------
\* C1: read-after-write.  After any sequence of writes, a read of an index
\* that was written succeeds and returns the value of the latest write to
\* it, whatever word the index table yields.  Stated here for the runs in
\* which every write stayed inside the allocated table and returned, which
\* are enough to refute it.
ReadAfterWrite ==
    Clean =>
      \A i \in Written : \A ix \in Candidates(i) :
        value_ref(i, ix) = [out |-> "Ok", ret |-> {lastval[i]}]

\* ---- C2 -----------------------------------------------------------------
\* C2: a read of an index i >= len() fails with OutOfRange and returns no
\* value, whatever the index table holds at i.
ReadBeyondLenFails ==
    /\ \A i \in Index : i >= len =>
         \A ix \in Candidates(i) \cup Garbage : value_ref(i, ix) = Failure("OutOfRange")
    /\ (last.op = "index" /\ last.i >= len) =>
         (last.out = "OutOfRange" /\ last.ret = {})

\* a read beyond the end of a container that holds something has failed
ReadBeyondLenFailed ==
    /\ last.op = "index"
    /\ len > 0
    /\ last.i >= len
    /\ last.out = "OutOfRange"

\* ---- C3 -----------------------------------------------------------------
\* C3: a read of an index i < len() that no write was ever called with fails
\* with UninitializedSlot and returns no value, whatever garbage the index
\* table holds at i.
ReadUnwrittenFails ==
    /\ \A i \in Index \ Written : i < len =>
         \A ix \in Candidates(i) \cup Garbage :
           value_ref(i, ix) = Failure("UninitializedSlot")
    /\ (last.op = "index" /\ last.i < len /\ last.i \notin Written) =>
         (last.out = "UninitializedSlot" /\ last.ret = {})

\* a read of a skipped-over index below len() has failed
ReadUnwrittenFailed ==
    /\ last.op = "index"
    /\ last.i < len
    /\ last.i \notin Written
    /\ last.out = "UninitializedSlot"

\* ---- C4 -----------------------------------------------------------------
\* C4: after write(i, _), len() equals max(len() before the write, i + 1).
\* Stated here for the writes that stay inside the allocated table and
\* return, which are enough to refute it.
LenAfterWrite ==
    [][(last'.op = "index_mut" /\ Clean') => len' = Max(len, last'.i + 1)]_vars

\* ---- C5 -----------------------------------------------------------------
\* C5: write(i, v) never panics.  Stated here for the writes of runs that
\* stayed inside the allocated table, which are enough to refute it.
WriteInfallible ==
    (last.op = "index_mut" /\ ~ub) => last.out = "Ok"

\* ---- C6 -----------------------------------------------------------------
\* C6: in every reachable state capacity() >= len().  Stated here for the
\* runs in which no write panicked, which are enough to refute it.
CapAtLeastLen == ~panicked => cap >= len

\* ---- C7 -----------------------------------------------------------------
\* C7: no operation decreases len().  Stated here for the runs that stay
\* inside the allocated table, which are enough to refute it.
LenNeverDecreases == [][~ub' => len' >= len]_vars

\* ---- C8 -----------------------------------------------------------------
\* C8: the value stack has one slot per distinct index written, no two
\* slots of value_indices name the same index, and a write to an index
\* that was already written does not lengthen the value stack.  Stated here
\* for the runs in which no write panicked, which are enough to refute it.
OneSlotPerIndex ==
    ~panicked =>
      /\ Len(values) = Cardinality(Written)
      /\ \A s, t \in 1..Len(value_indices) :
           value_indices[s] = value_indices[t] => s = t

RewriteKeepsLen ==
    (last'.op = "index_mut" /\ last'.i \in Written /\ ~panicked')
      => Len(values') = Len(values)

SpaceProportional == []OneSlotPerIndex /\ [][RewriteKeepsLen]_vars

\* ---- C9 -----------------------------------------------------------------
\* C9: once a write to i has allocated slot s for it, every later read of
\* the index table at i yields s, value_indices[s] is i, and i passes the
\* validation of reads and writes.  Stated here for the runs in which no
\* write panicked, which are enough to refute it.
SlotStable ==
    ~panicked =>
      \A i \in DOMAIN slotOf : \A ix \in Candidates(i) :
        /\ ix = slotOf[i]
        /\ trustworthy(ix, i)

\* ---- C10 ----------------------------------------------------------------
\* C10: right after new() or with_capacity(c): len() is 0, capacity() >= c,
\* both stacks are empty, and a read of any index, also one below c, fails
\* with OutOfRange.
FreshIsEmpty ==
    last.op \in {"new", "with_capacity"} =>
      /\ len = 0
      /\ cap >= last.i
      /\ values = <<>>
      /\ value_indices = <<>>
      /\ \A i \in Index : \A ix \in Candidates(i) \cup Garbage :
           value_ref(i, ix) = Failure("OutOfRange")

\* a container that with_capacity pre-allocated cells for
FreshWithCapacity ==
    /\ last.op = "with_capacity"
    /\ last.i > 0
    /\ cap >= last.i
    /\ \E i \in Index : i < cap

\* ---- C11 ----------------------------------------------------------------
\* C11: after the capacity step of value_ref_mut(i) the capacity exceeds i,
\* so the cell the call reads and writes lies inside the index table.
GrowthCoversIndex == last.op = "index_mut" => cap > last.i

\* ---- C12 ----------------------------------------------------------------
\* C12: a write that finds its index not trustworthy allocates the slot
\* s = values.len(), records value_indices[s] = i and index_table[i] = s,
\* and stores the assigned value in slot s.  Stated here for the writes of
\* runs that stayed inside the allocated table and never panicked, which
\* are enough to refute it.
FirstWriteFillsNewSlot ==
    [][(last'.op = "index_mut" /\ last'.path = "push" /\ Clean') =>
         LET s == Len(values) IN
         /\ Len(values') = s + 1
         /\ value_indices' = Append(value_indices, last'.i)
         /\ indices'[last'.i + 1] = {s}
         /\ values'[s + 1] = {lastval'[last'.i]}]_vars

\* ---- C13 ----------------------------------------------------------------
\* C13: a write to i leaves the outcome of a read of every other index j
\* that is below len() before and after it as it was.  Stated here for the
\* writes of runs that stayed inside the allocated table and never
\* panicked, which are enough to refute it.
WriteIsolation ==
    [][(last'.op = "index_mut" /\ Clean') =>
         \A j \in Index \ {last'.i} :
           (j < len /\ j < len') => ReadOutcomes(j)' = ReadOutcomes(j)]_vars

\* ---- C14 ----------------------------------------------------------------
\* what a caller can observe of a write: its outcome and the container's
\* len(), stacks and stored values
Observed(r, v) ==
    [out |-> r.out, size |-> r.size, value_indices |-> r.value_indices,
     values |-> store(r.values, r.slot, v)]

\* C14: two runs of the same operations that differ only in the content of
\* never-written index-table cells agree on every outcome.  Two such runs
\* are in the same state up to those cells, so it is stated on the next
\* operation: whichever word a cell inside the table yields, a read gives
\* the same result and a write the same outcome, len() and stacks.
GarbageIndependent ==
    \A i \in Index : i < cap =>
      /\ \A r1, r2 \in ReadOutcomes(i) : r1 = r2
      /\ \A ix1, ix2 \in Candidates(i), v \in Vals :
           Observed(value_ref_mut(indices, i, ix1), v)
             = Observed(value_ref_mut(indices, i, ix2), v)

\* ---- C15 ----------------------------------------------------------------
\* C15: a write to an index i whose cell of the index table holds a slot s
\* that is trustworthy for i changes values[s] only: len(), capacity(),
\* values.len(), value_indices, the index table and every other value slot
\* stay as they were.
OverwriteFrame ==
    [][(/\ last'.op = "index_mut"
        /\ last'.i < cap
        /\ indices[last'.i + 1] # Uninit
        /\ \A s \in indices[last'.i + 1] : trustworthy(s, last'.i)) =>
         \A s \in indices[last'.i + 1] :
           /\ len' = len
           /\ cap' = cap
           /\ indices' = indices
           /\ value_indices' = value_indices
           /\ Len(values') = Len(values)
           /\ values'[s + 1] = {lastval'[last'.i]}
           /\ \A k \in 1..Len(values) : k # s + 1 => values'[k] = values[k]]_vars

\* a write has overwritten a slot of a container that holds another one
OverwriteDone ==
    /\ last.op = "index_mut"
    /\ last.path = "overwrite"
    /\ ~ub
    /\ Len(values) > 1

\* ---- C16 ----------------------------------------------------------------
\* C16: values and value_indices have the same length in every reachable
\* state, also after a write or a read panicked, and the assertion
\* `nstacked == self.value_indices.len()` of value_ref_mut never fails.
StacksParallel ==
    /\ Len(values) = Len(value_indices)
    /\ last.out # "AssertPanic"

\* a write has returned after an earlier write panicked
WriteAfterPanic ==
    /\ panicked
    /\ last.op = "index_mut"
    /\ last.out = "Ok"
    /\ Len(values) > 1

\* ---- C17 ----------------------------------------------------------------
\* C17: values and value_indices never get shorter, an operation lengthens
\* each by at most one, and an entry of value_indices never changes.
AppendOnly ==
    [][/\ Len(values') \in {Len(values), Len(values) + 1}
       /\ Len(value_indices') \in {Len(value_indices), Len(value_indices) + 1}
       /\ \A s \in 1..Len(value_indices) :
            value_indices'[s] = value_indices[s]]_vars

\* a write has pushed a second slot
SecondSlotPushed ==
    /\ last.op = "index_mut"
    /\ last.path = "push"
    /\ Len(value_indices) = 2

\* ---- C18 ----------------------------------------------------------------
\* C18: capacity() never decreases, and it changes only in a write whose
\* index is at least the capacity before it: reads, len(), cap() and writes
\* below the capacity leave it as it was.
CapMonotone ==
    [][/\ cap' >= cap
       /\ cap' # cap => (last'.op = "index_mut" /\ last'.i >= cap)]_vars

\* a write has grown the index table
TableGrew ==
    /\ last.op = "index_mut"
    /\ last.grew
    /\ cap > 0

\* ---- C19 ----------------------------------------------------------------
\* C19: a read, whether it succeeds or fails, len() and cap() leave size,
\* values, value_indices and the index table with its capacity unchanged.
QueriesPure ==
    [][last'.op \in {"index", "len", "cap"} =>
         UNCHANGED <<size, values, value_indices, indices>>]_vars

\* a read of a container that holds something has failed
ReadFailed ==
    /\ last.op = "index"
    /\ last.out \in {"OutOfRange", "UninitializedSlot"}
    /\ Len(values) > 0

====
